---- MODULE Spec2Model ----
(***************************************************************************)
(* Model of the chat client in src/src/components/ChatInterface.tsx:       *)
(* the React state of ChatInterface, its event handlers (handleSubmit,     *)
(* handleButtonClick, refreshSession) and the streaming reader             *)
(* (handleStreamingResponse), with every await as a suspension point, and  *)
(* the render of src/src/components/StreamingDisplay.tsx, which can throw. *)
(*                                                                         *)
(* Text is a sequence of one-character strings.  A stream body is a        *)
(* sequence of bytes; every byte is one character except the two-byte      *)
(* character "@" (bytes "C3" "A9", as for an accented letter).  JSON text   *)
(* is modelled at token level:                                             *)
(* "{" and "}" are the braces, a tag token stands for a "type":"..."       *)
(* member, a data token for a "data":"..." member.                         *)
(***************************************************************************)
EXTENDS Integers, Sequences, FiniteSets, TLC

----------------------------------------------------------------------------
(* Bounds *)

\* requests dispatched in one behaviour of the client
MaxReq == 2
\* requests dispatched in one behaviour of the client with overlapping requests
MaxOverlapReq == 3
\* lines in a stream body drawn by the framer specification
MaxRecords == 2
\* size of the range session ids are drawn from (10^9 in the code)
SessionIdRange == 2
\* refreshes in one behaviour
MaxRefresh == 1
\* milliseconds the clock advances in one behaviour of the clocked client
MaxTicks == 1

----------------------------------------------------------------------------
(* JavaScript values *)

\* the value `undefined` where a string is expected, and where a text (a
\* sequence of characters) is expected
Undefined == "<undefined>"
UndefinedText == <<Undefined>>
\* the outcome of a JSON.parse that throws SyntaxError
SyntaxError == [ok |-> FALSE]

\* characters removed by String.prototype.trim and skipped by JSON.parse
WhiteSpace == {" ", "\r"}

\* tag tokens and the value of the "type" member each one stands for
TagOf ==
    [I |-> "intent", P |-> "recommended_products", E |-> "error",
     F |-> "follow_up", R |-> "final_response", Z |-> "zzz"]
TagTokens == DOMAIN TagOf

\* data tokens and the value of the "data" member each one stands for
DataOf(tok) ==
    CASE tok = "x" -> <<"x">>
      [] tok = "y" -> <<"y">>
      [] tok = "@" -> <<"@">>
      [] tok = "0" -> <<>>
DataTokens == {"x", "y", "@", "0"}

\* s.trim() is non-empty
TrimNonEmpty(s) == \E i \in 1..Len(s) : s[i] \notin WhiteSpace

\* JSON.parse(line): the decoded value, or SyntaxError
JSONparse(line) ==
    LET toks == SelectSeq(line, LAMBDA c : c \notin WhiteSpace)
        n    == Len(toks)
        obj(t, d) == [ok |-> TRUE, kind |-> "object", type |-> t, data |-> d]
    IN  IF toks = <<"n">> THEN [ok |-> TRUE, kind |-> "null"]
        ELSE IF toks = <<"5">> THEN [ok |-> TRUE, kind |-> "number"]
        ELSE IF n >= 2 /\ toks[1] = "{" /\ toks[n] = "}"
        THEN CASE n = 2 -> obj(Undefined, UndefinedText)
               [] n = 3 /\ toks[2] \in TagTokens -> obj(TagOf[toks[2]], UndefinedText)
               [] n = 3 /\ toks[2] \in DataTokens -> obj(Undefined, DataOf(toks[2]))
               [] n = 4 /\ toks[2] \in TagTokens /\ toks[3] \in DataTokens
                    -> obj(TagOf[toks[2]], DataOf(toks[3]))
               [] OTHER -> SyntaxError
        ELSE SyntaxError

\* streamItem.type / streamItem.data of a decoded value: a property read on
\* null throws TypeError, on a number it yields undefined
ReadThrows(v) == v.kind = "null"
TypeField(v) == IF v.kind = "object" THEN v.type ELSE Undefined
DataField(v) == IF v.kind = "object" THEN v.data ELSE UndefinedText

\* JavaScript truthiness of a captured payload (finalMessage && ...)
Truthy(d) == d # UndefinedText /\ d # <<>>

----------------------------------------------------------------------------
(* TextDecoder.decode(value, {stream: true}) *)

\* the replacement character a decoder emits for an invalid byte sequence
Replacement == "\\uFFFD"

RECURSIVE DecodeFrom(_, _, _)
\* pend: the lead byte held back from the previous call (<<>> if none)
DecodeFrom(pend, bytes, out) ==
    IF bytes = <<>> THEN [text |-> out, pend |-> pend]
    ELSE LET b == Head(bytes) IN
         IF pend # <<>>
         THEN IF b = "A9" THEN DecodeFrom(<<>>, Tail(bytes), Append(out, "@"))
              ELSE DecodeFrom(<<>>, bytes, Append(out, Replacement))
         ELSE IF b = "C3" THEN DecodeFrom(<<b>>, Tail(bytes), out)
         ELSE IF b = "A9" THEN DecodeFrom(<<>>, Tail(bytes), Append(out, Replacement))
         ELSE DecodeFrom(<<>>, Tail(bytes), Append(out, b))

decode(pend, value) == DecodeFrom(pend, value, <<>>)

----------------------------------------------------------------------------
(* buffer.split('\n') and lines.pop() || '' *)

RECURSIVE SplitFrom(_, _, _)
SplitFrom(s, cur, acc) ==
    IF s = <<>> THEN Append(acc, cur)
    ELSE IF Head(s) = "\n" THEN SplitFrom(Tail(s), <<>>, Append(acc, cur))
    ELSE SplitFrom(Tail(s), Append(cur, Head(s)), acc)

\* s.split('\n'): never empty, its last piece is the text after the last "\n"
split(s) == SplitFrom(s, <<>>, <<>>)

\* the array left by lines.pop()
PoppedLines(s) == SubSeq(split(s), 1, Len(split(s)) - 1)
\* a reader that clears the buffer instead of keeping the unfinished line
DropTailBuffer(s) == <<>>
\* lines.pop() || ''
PoppedBuffer(s) == split(s)[Len(split(s))]

----------------------------------------------------------------------------
(* The body of the read loop: one decoded record folded into the state *)

\* a reader that logs the recognized intermediate tags only
AppendsKnownOnly(type) == type \in {"intent", "recommended_products"}
\* if (streamItem.type !== 'follow_up' && streamItem.type !== 'final_response')
AppendsEvent(type) == type # "follow_up" /\ type # "final_response"

\* a reader that takes the final text from either terminal tag
CapturesTerminal(type) == type \in {"follow_up", "final_response"}
\* if (streamItem.type === 'follow_up')
CapturesFinal(type) == type = "follow_up"

\* what one line does to the stream-event log and to finalMessage
\* (lines 169-189): acc = [events, finalMessage]
FoldLine(acc, line, time) ==
    IF ~TrimNonEmpty(line) THEN acc
    ELSE LET streamItem == JSONparse(line) IN
         IF ~streamItem.ok THEN acc
         ELSE IF ReadThrows(streamItem) THEN acc
         ELSE LET type == TypeField(streamItem)
                  data == DataField(streamItem)
              IN  [events |->
                       IF AppendsEvent(type)
                       THEN Append(acc.events,
                                   [type |-> type, data |-> data, timestamp |-> time])
                       ELSE acc.events,
                   finalMessage |->
                       IF CapturesFinal(type) THEN data ELSE acc.finalMessage]

RECURSIVE FoldLinesUncaught(_, _, _)
\* a loop without the inner try/catch: a line that is not JSON ends it
FoldLinesUncaught(acc, lines, time) ==
    IF lines = <<>> THEN acc
    ELSE IF TrimNonEmpty(Head(lines)) /\ ~JSONparse(Head(lines)).ok THEN acc
    ELSE FoldLinesUncaught(FoldLine(acc, Head(lines), time), Tail(lines), time)

RECURSIVE FoldLines(_, _, _)
\* for (const line of lines) { ... }
FoldLines(acc, lines, time) ==
    IF lines = <<>> THEN acc
    ELSE FoldLines(FoldLine(acc, Head(lines), time), Tail(lines), time)

\* one iteration of the while loop on a chunk `value` (lines 164-190), from
\* the reader's locals rd = [buffer, pend, finalMessage] and the log `events`
ReadChunk(rd, events, value, time) ==
    LET dec    == decode(rd.pend, value)
        buffer == rd.buffer \o dec.text
        folded == FoldLines([events |-> events, finalMessage |-> rd.finalMessage],
                            PoppedLines(buffer), time)
    IN  [buffer |-> PoppedBuffer(buffer), pend |-> dec.pend,
         finalMessage |-> folded.finalMessage, events |-> folded.events]

----------------------------------------------------------------------------
(* What the user and the server can supply *)

Hi    == <<"h", "i">>
Blank == <<" ">>
Gold  == <<"G">>

\* texts the form can hold when it is submitted
FormTexts == {Hi, Blank, <<>>}

\* "I'm not sure how to respond to that."
FallbackText == <<"?">>

\* bodies that response.json() can decode to; `absent` names the members the
\* object does not have
NoProducts == <<>>
RawProduct ==
    [product_name |-> "ring", description |-> "d", link_to_product |-> "l",
     price |-> "9", Image_URL |-> "U", image_url |-> Undefined]
ReplyInteractive ==
    [absent |-> {"options", "products", "metadata"},
     response |-> <<"P">>, type |-> "interactive", buttons |-> <<Gold, Blank>>,
     options |-> <<>>, products |-> NoProducts, total_products |-> 0]
ReplyEmpty ==
    [absent |-> {"response", "type", "buttons", "options", "products", "metadata"},
     response |-> <<>>, type |-> Undefined, buttons |-> <<>>,
     options |-> <<>>, products |-> NoProducts, total_products |-> 0]
ReplyOptions ==
    [absent |-> {"buttons"},
     response |-> <<"T">>, type |-> "text", buttons |-> <<>>,
     options |-> <<Gold>>, products |-> <<RawProduct>>, total_products |-> 1]
Replies == {ReplyInteractive, ReplyEmpty, ReplyOptions}

\* the stream bodies (bytes) the server sends in the full specification:
\* {"type":"follow_up","data":"y"}\n
BodyFollowUp == <<"{", "F", "y", "}", "\n">>
\* {"data":"x"}\n, a record without a type
BodyUntagged == <<"{", "x", "}", "\n">>
ServerBodies == {BodyFollowUp, BodyUntagged}

\* a stream body with an intermediate record before the final text:
\* {"type":"intent","data":"x"}\n{"type":"follow_up","data":"y"}\n
BodyIntentFollowUp ==
    <<"{", "I", "x", "}", "\n", "{", "F", "y", "}", "\n">>
RecordBodies == {BodyIntentFollowUp}

\* a second stream body, with a two-byte character in its final text:
\* {"type":"recommended_products","data":"x"}\n{"type":"follow_up","data":"@"}\n
BodyProductsFollowUp ==
    <<"{", "P", "x", "}", "\n", "{", "F", "C3", "A9", "}", "\n">>

\* lines (bytes, without the newline) of the bodies drawn by the framer
\* specification: well-formed records, JSON values that are no records,
\* text that is not JSON, blank lines
FramerLines ==
    { <<"{", "I", "x", "}">>,
      <<"{", "F", "y", "}">>,
      <<"{", "F", "0", "}">>,
      <<"{", "F", "C3", "A9", "}">>,
      <<"{", "R", "x", "}">>,
      <<"{", "P", "x", "}">>,
      <<"{", "E", "x", "}">>,
      <<"{", "Z", "x", "}", "\r">>,
      <<"{", "x", "}">>,
      <<"5">>,
      <<"n">>,
      <<"{", "I", "x">>,
      <<" ">>,
      <<>> }

RECURSIVE BodiesOf(_)
\* the bodies of exactly k lines, the last one with or without its newline
BodiesOf(k) ==
    IF k = 0 THEN {<<>>}
    ELSE IF k = 1 THEN {l \o e : l \in FramerLines, e \in {<<>>, <<"\n">>}}
    ELSE {l \o <<"\n">> \o rest : l \in FramerLines, rest \in BodiesOf(k - 1)}

FramerBodies == UNION {BodiesOf(k) : k \in 0..MaxRecords}

----------------------------------------------------------------------------
(* State *)

VARIABLES
    messages,         \* useState<Message[]>            (line 74)
    isLoading,        \* useState(false)                (line 76)
    isInputDisabled,  \* useState(false)                (line 77)
    sessionId,        \* useState(() => random id)      (line 78)
    streamingData,    \* useState<StreamingData[]>      (line 82)
    isStreaming,      \* useState(false)                (line 83)
    userQuery,        \* useState<string>('')           (line 84)
    now,              \* the value Date.now() and new Date() read, in ms
    requests,         \* the handler invocations suspended at an await
    nrefresh,         \* refreshes so far
    budget,           \* requests the behaviour may still dispatch
    last              \* the handler step that produced this state

vars == <<messages, isLoading, isInputDisabled, sessionId, streamingData,
          isStreaming, userQuery, now, requests, nrefresh, budget, last>>

SessionIds == 0..(SessionIdRange - 1)

\* a handler invocation: pc is the await it is suspended at ("fetch": the
\* fetch or response.json(); "stream": reader.read(); "catch": the await of
\* handleStreamingResponse, which has thrown), or "done"
\* body: the bytes not yet read; payload: the whole body; buffer, pend (the
\* decoder's held byte) and finalMessage: the locals of
\* handleStreamingResponse; split: some read ended inside a record;
\* overlap: another request has been in flight together with this one;
\* toasts: the addToast calls made for this request so far
NoReq ==
    [pc |-> "done", text |-> <<>>, via |-> "none", session |-> 0,
     body |-> <<>>, payload |-> <<>>, buffer |-> <<>>, pend |-> <<>>,
     finalMessage |-> <<>>, split |-> FALSE, overlap |-> FALSE,
     toasts |-> <<>>]

\* the state a handler started from, kept for refreshSession and for
\* handleButtonClick
NoPre ==
    [nmsg |-> 0, nev |-> 0, locked |-> FALSE, streaming |-> FALSE,
     loading |-> FALSE, session |-> 0]
Pre ==
    [nmsg |-> Len(messages), nev |-> Len(streamingData),
     locked |-> isInputDisabled, streaming |-> isStreaming,
     loading |-> isLoading, session |-> sessionId]

\* op: the step; ticket: its request; req: that request before a step that
\* ends it; toasts: the addToast calls of the step; text: the text submitted
NoStep ==
    [op |-> "init", ticket |-> 0, req |-> NoReq, toasts |-> <<>>,
     text |-> <<>>, pre |-> NoPre]
Step(op, ticket, req, toasts, text) ==
    [op |-> op, ticket |-> ticket, req |-> req, toasts |-> toasts,
     text |-> text, pre |-> NoPre]

nreq == Len(requests)

\* the render of StreamingDisplay throws: getTypeDisplayName(item.type) calls
\* type.charAt(0) on an entry that is no query and has no type
\* (StreamingDisplay.tsx lines 145-166, 81-91)
RenderThrows ==
    \E i \in 1..Len(streamingData) :
        streamingData[i].type # "query" /\ streamingData[i].type = Undefined

\* the component is mounted: StreamingDisplay is rendered with the controls
\* of the chat (lines 517-521) and no error boundary catches a throwing
\* render.  Once unmounted, no user event reaches a handler; a handler
\* suspended at an await still resumes, and its state updates are discarded
Mounted == ~RenderThrows

\* a setter of useState (lines 74-86) called by a continuation with the new
\* value: the update is applied while the component is mounted and
\* discarded once a render has thrown and the tree is unmounted
setState(current, value) == IF Mounted THEN value ELSE current

\* no handler is waiting to resume in its catch: that continuation is a
\* microtask queued by the rejection of handleStreamingResponse (lines 277,
\* 347), and the browser runs no event handler (a submit, a click) before
\* the microtasks queued so far; the continuations of other promises settled
\* in the same turn can run before it
EventLoopIdle == \A r \in 1..nreq : requests[r].pc # "catch"
InFlight == {r \in 1..nreq : requests[r].pc # "done"}

\* the state after construction (lines 74-86), with n requests to dispatch
InitWith(n) ==
    /\ budget = n
    /\ messages = <<>>
    /\ isLoading = FALSE
    /\ isInputDisabled = FALSE
    /\ sessionId \in SessionIds
    /\ streamingData = <<>>
    /\ isStreaming = FALSE
    /\ userQuery = <<>>
    /\ now = 0
    /\ requests = <<>>
    /\ nrefresh = 0
    /\ last = NoStep

Init == InitWith(MaxReq)
InitOverlap == InitWith(MaxOverlapReq)

----------------------------------------------------------------------------
(* Messages *)

\* const userMessage: Message = { id, content, sender: 'user', timestamp }
UserMessage(content) ==
    [id |-> now, content |-> content, sender |-> "user", timestamp |-> now,
     type |-> Undefined, buttons |-> <<>>, options |-> <<>>,
     products |-> <<>>, total_products |-> 0]

\* data.products?.map(p => ({..., image_url: p.Image_URL || p.image_url, ...}))
NormalProduct(p) ==
    [product_name |-> p.product_name, description |-> p.description,
     link_to_product |-> p.link_to_product,
     image_url |-> IF p.Image_URL # Undefined /\ p.Image_URL # ""
                   THEN p.Image_URL ELSE p.image_url,
     price |-> p.price]

\* the agent message built from a synchronous reply (lines 255-271, 325-341)
\* a reply whose kind is taken as sent, without the default
ReplyTypeAsSent(data) == data.type
\* type: data.type || 'text'
ReplyType(data) ==
    IF "type" \in data.absent \/ data.type = "" THEN "text" ELSE data.type
ReplyMessage(data) ==
    [id |-> now,
     content |-> IF "response" \in data.absent \/ data.response = <<>>
                 THEN FallbackText ELSE data.response,
     sender |-> "agent", timestamp |-> now,
     type |-> ReplyType(data),
     buttons |-> IF "buttons" \in data.absent THEN <<>> ELSE data.buttons,
     options |-> IF "options" \in data.absent THEN <<>> ELSE data.options,
     products |-> IF "products" \in data.absent THEN <<>>
                  ELSE [i \in 1..Len(data.products) |-> NormalProduct(data.products[i])],
     total_products |-> IF "metadata" \in data.absent THEN 0 ELSE data.total_products]

\* the agent message built at the end of a stream (lines 194-200)
StreamMessage(finalMessage) ==
    [id |-> now, content |-> finalMessage, sender |-> "agent", timestamp |-> now,
     type |-> "text", buttons |-> <<>>, options |-> <<>>,
     products |-> <<>>, total_products |-> 0]

\* an update that puts the new message in front of the log
WithMessageFirst(prev, message) == <<message>> \o prev
\* setMessages(prev => [...prev, message])
WithMessage(prev, message) == Append(prev, message)

Range(f) == {f[i] : i \in DOMAIN f}

\* the labels of the buttons rendered for the message log (lines 414-439)
ButtonLabels ==
    UNION {(IF m.type = "interactive" THEN Range(m.buttons) ELSE {})
             \cup Range(m.options)
           : m \in {x \in Range(messages) : x.sender = "agent"}}

\* the request a handler issues and then awaits
NewRequest(text, via) ==
    [pc |-> "fetch", text |-> text, via |-> via, session |-> sessionId,
     body |-> <<>>, payload |-> <<>>, buffer |-> <<>>, pend |-> <<>>,
     finalMessage |-> <<>>, split |-> FALSE, overlap |-> FALSE,
     toasts |-> <<>>]

\* the requests once one more is issued: it and those in flight have company
Dispatch(text, via) ==
    Append([r \in 1..nreq |->
               IF requests[r].pc = "done" THEN requests[r]
               ELSE [requests[r] EXCEPT !.overlap = TRUE]],
           [NewRequest(text, via) EXCEPT !.overlap = InFlight # {}])

----------------------------------------------------------------------------
(* Handlers *)

\* the form's submit event: handleSubmit up to its first await
\* (lines 219-245)
handleSubmit(inputMessage) ==
    /\ Mounted /\ EventLoopIdle
    /\ budget > 0
    /\ IF ~TrimNonEmpty(inputMessage)
       THEN /\ UNCHANGED <<messages, isLoading, requests, budget>>
            /\ last' = Step("submit", 0, NoReq, <<>>, inputMessage)
       ELSE /\ messages' = WithMessage(messages, UserMessage(inputMessage))
            /\ isLoading' = TRUE
            /\ requests' = Dispatch(inputMessage, "form")
            /\ budget' = budget - 1
            /\ last' = Step("submit", nreq + 1, NoReq, <<>>, inputMessage)
    /\ UNCHANGED <<isInputDisabled, sessionId, streamingData, isStreaming,
                   userQuery, now, nrefresh>>

\* the input is disabled while isLoading or isInputDisabled (line 503), the
\* submit button also while the text is blank (line 508):
\* disabled={!inputMessage.trim() || isLoading || isInputDisabled}
FormEnabled(inputMessage) ==
    TrimNonEmpty(inputMessage) /\ ~isLoading /\ ~isInputDisabled

\* the user submits the form through its controls
submitForm(inputMessage) ==
    /\ FormEnabled(inputMessage)
    /\ handleSubmit(inputMessage)

\* setIsInputDisabled(false) of handleButtonClick (line 302)
KeptLock == isInputDisabled
ClickedLock == FALSE

\* a click on a rendered button or option: handleButtonClick up to its
\* first await (lines 292-315)
handleButtonClick(buttonText) ==
    /\ Mounted /\ EventLoopIdle
    /\ buttonText \in ButtonLabels
    /\ budget > 0
    /\ budget' = budget - 1
    /\ messages' = WithMessage(messages, UserMessage(buttonText))
    /\ isLoading' = TRUE
    /\ isInputDisabled' = ClickedLock
    /\ requests' = Dispatch(buttonText, "button")
    /\ last' = [Step("click", nreq + 1, NoReq, <<>>, buttonText)
                   EXCEPT !.pre = [NoPre EXCEPT !.locked = isInputDisabled]]
    /\ UNCHANGED <<sessionId, streamingData, isStreaming, userQuery, now, nrefresh>>

\* a client that drops the reply to a request of a replaced session
SyncReplyFenced(r, data) ==
    /\ r \in InFlight /\ requests[r].pc = "fetch"
    /\ messages' = IF requests[r].session # sessionId THEN messages
                   ELSE setState(messages, Append(messages, ReplyMessage(data)))
    /\ isInputDisabled' = IF requests[r].session # sessionId THEN isInputDisabled
                          ELSE setState(isInputDisabled,
                                        ReplyMessage(data).type = "interactive")
    /\ isLoading' = setState(isLoading, FALSE)
    /\ requests' = [requests EXCEPT ![r] = NoReq]
    /\ last' = Step("reply", r, requests[r], <<>>, <<>>)
    /\ UNCHANGED <<sessionId, streamingData, isStreaming, userQuery, now, nrefresh, budget>>

\* the response is JSON and response.json() resolves to data
\* (lines 251-275, 321-345)
SyncReply(r, data) ==
    /\ r \in InFlight /\ requests[r].pc = "fetch"
    /\ messages' = setState(messages, WithMessage(messages, ReplyMessage(data)))
    /\ isInputDisabled' = setState(isInputDisabled,
                                   ReplyMessage(data).type = "interactive")
    /\ isLoading' = setState(isLoading, FALSE)
    /\ requests' = [requests EXCEPT ![r] = NoReq]
    /\ last' = Step("reply", r, requests[r], <<>>, <<>>)
    /\ UNCHANGED <<sessionId, streamingData, isStreaming, userQuery, now, nrefresh, budget>>

\* a catch block that leaves the loading flag as it was
LoadingKept == isLoading
\* setIsLoading(false) of the catch and finally blocks (lines 214, 282, 352)
LoadingAfterFailure == FALSE

\* fetch rejects, the status is not ok, or response.json() rejects: the
\* catch block of the handler (lines 280-289, 350-359)
RequestFails(r) ==
    /\ r \in InFlight /\ requests[r].pc = "fetch"
    /\ isStreaming' = setState(isStreaming, FALSE)
    /\ isLoading' = setState(isLoading, LoadingAfterFailure)
    /\ requests' = [requests EXCEPT ![r] = NoReq]
    /\ last' = Step("fail", r, requests[r], <<"agent">>, <<>>)
    /\ UNCHANGED <<messages, isInputDisabled, sessionId, streamingData,
                   userQuery, now, nrefresh, budget>>

\* the response is not JSON: handleStreamingResponse up to its first
\* reader.read() (lines 135-160)
StreamBegins(r, body) ==
    /\ r \in InFlight /\ requests[r].pc = "fetch"
    /\ isStreaming' = setState(isStreaming, TRUE)
    /\ userQuery' = setState(userQuery, requests[r].text)
    /\ streamingData' = setState(streamingData, Append(streamingData,
           [type |-> "query", data |-> requests[r].text, timestamp |-> now]))
    /\ requests' = [requests EXCEPT ![r].pc = "stream", ![r].body = body,
                                    ![r].payload = body]
    /\ last' = Step("streamBegin", r, NoReq, <<>>, <<>>)
    /\ UNCHANGED <<messages, isLoading, isInputDisabled, sessionId, now, nrefresh, budget>>

\* the response is not JSON and has no body: handleStreamingResponse up to
\* the throw of line 155, which is outside its try; the handler that awaits
\* it resumes in its catch in a later continuation (lines 135-156)
StreamNoBody(r) ==
    /\ r \in InFlight /\ requests[r].pc = "fetch"
    /\ isStreaming' = setState(isStreaming, TRUE)
    /\ userQuery' = setState(userQuery, requests[r].text)
    /\ streamingData' = setState(streamingData, Append(streamingData,
           [type |-> "query", data |-> requests[r].text, timestamp |-> now]))
    /\ requests' = [requests EXCEPT ![r].pc = "catch"]
    /\ last' = Step("noBody", r, requests[r], <<>>, <<>>)
    /\ UNCHANGED <<messages, isLoading, isInputDisabled, sessionId, now,
                   nrefresh, budget>>

\* a reader whose pending buffer is one variable shared by all the streams
StreamReadSharedBuffer(r) ==
    /\ r \in InFlight /\ requests[r].pc = "stream"
    /\ \E n \in 1..Len(requests[r].body) :
         LET rq   == requests[r]
             res  == ReadChunk(rq, streamingData, SubSeq(rq.body, 1, n), now)
             rest == SubSeq(rq.body, n + 1, Len(rq.body))
         IN  /\ streamingData' = setState(streamingData, res.events)
             /\ requests' = [q \in 1..nreq |->
                    IF q = r
                    THEN [rq EXCEPT !.body = rest, !.buffer = res.buffer,
                                    !.pend = res.pend,
                                    !.finalMessage = res.finalMessage,
                                    !.split = rq.split \/ (res.buffer # <<>> /\ rest # <<>>)]
                    ELSE IF requests[q].pc = "stream"
                    THEN [requests[q] EXCEPT !.buffer = res.buffer]
                    ELSE requests[q]]
    /\ last' = Step("read", r, NoReq, <<>>, <<>>)
    /\ UNCHANGED <<messages, isLoading, isInputDisabled, sessionId, isStreaming,
                   userQuery, now, nrefresh, budget>>

\* reader.read() resolves to a chunk, the next n bytes of the body
\* (lines 160-190)
StreamRead(r) ==
    /\ r \in InFlight /\ requests[r].pc = "stream"
    /\ \E n \in 1..Len(requests[r].body) :
         LET rq   == requests[r]
             res  == ReadChunk(rq, streamingData, SubSeq(rq.body, 1, n), now)
             rest == SubSeq(rq.body, n + 1, Len(rq.body))
         IN  /\ streamingData' = setState(streamingData, res.events)
             /\ requests' = [requests EXCEPT
                    ![r].body = rest,
                    ![r].buffer = res.buffer,
                    ![r].pend = res.pend,
                    ![r].finalMessage = res.finalMessage,
                    ![r].split = rq.split \/ (res.buffer # <<>> /\ rest # <<>>)]
    /\ last' = Step("read", r, NoReq, <<>>, <<>>)
    /\ UNCHANGED <<messages, isLoading, isInputDisabled, sessionId, isStreaming,
                   userQuery, now, nrefresh, budget>>

\* a reader that fills the product list from the recommended_products
\* records it has logged
ProductsFromRecords ==
    SelectSeq(streamingData, LAMBDA e : e.type = "recommended_products")
\* let recommendedProducts: Product[] = []  (never assigned afterwards)
recommendedProducts == <<>>

\* a reader without the finally block: the flag stays as it was
LoadingLeftOn == isLoading
\* setIsLoading(false) of the finally block (line 214)
LoadingAfterStream == FALSE

\* reader.read() resolves to done (lines 162, 193-203, 213-216)
StreamDone(r) ==
    /\ r \in InFlight /\ requests[r].pc = "stream"
    /\ requests[r].body = <<>>
    /\ messages' = IF Truthy(requests[r].finalMessage) /\ Len(recommendedProducts) = 0
                   THEN setState(messages,
                            WithMessage(messages, StreamMessage(requests[r].finalMessage)))
                   ELSE messages
    /\ isLoading' = setState(isLoading, LoadingAfterStream)
    /\ isStreaming' = setState(isStreaming, FALSE)
    /\ requests' = [requests EXCEPT ![r] = NoReq]
    /\ last' = Step("streamDone", r, requests[r], <<>>, <<>>)
    /\ UNCHANGED <<isInputDisabled, sessionId, streamingData, userQuery, now, nrefresh, budget>>

\* a reader that still appends the captured final text when a read rejects
StreamFailsKeepingText(r) ==
    /\ r \in InFlight /\ requests[r].pc = "stream"
    /\ messages' = IF Truthy(requests[r].finalMessage)
                   THEN setState(messages,
                            Append(messages, StreamMessage(requests[r].finalMessage)))
                   ELSE messages
    /\ isLoading' = setState(isLoading, LoadingAfterFailure)
    /\ isStreaming' = setState(isStreaming, FALSE)
    /\ requests' = [requests EXCEPT ![r].pc = "catch", ![r].toasts = <<"stream">>]
    /\ last' = Step("streamFail", r, requests[r], <<"stream">>, <<>>)
    /\ UNCHANGED <<isInputDisabled, sessionId, streamingData,
                   userQuery, now, nrefresh, budget>>

\* reader.read() rejects: catch and finally of handleStreamingResponse, which
\* rethrows to the handler that awaits it (lines 205-216)
StreamFails(r) ==
    /\ r \in InFlight /\ requests[r].pc = "stream"
    /\ isLoading' = setState(isLoading, LoadingAfterFailure)
    /\ isStreaming' = setState(isStreaming, FALSE)
    /\ requests' = [requests EXCEPT ![r].pc = "catch", ![r].toasts = <<"stream">>]
    /\ last' = Step("streamFail", r, requests[r], <<"stream">>, <<>>)
    /\ UNCHANGED <<messages, isInputDisabled, sessionId, streamingData,
                   userQuery, now, nrefresh, budget>>

\* `await handleStreamingResponse(...)` rejects: the catch block of the
\* handler (lines 277-289, 347-359)
AwaitRejects(r) ==
    /\ r \in InFlight /\ requests[r].pc = "catch"
    /\ isStreaming' = setState(isStreaming, FALSE)
    /\ isLoading' = setState(isLoading, LoadingAfterFailure)
    /\ requests' = [requests EXCEPT ![r] = NoReq]
    /\ last' = Step("caught", r, requests[r], <<"agent">>, <<>>)
    /\ UNCHANGED <<messages, isInputDisabled, sessionId, streamingData,
                   userQuery, now, nrefresh, budget>>

\* setStreamingData([]) of refreshSession (line 366)
KeptStreamingData == streamingData
RefreshedStreamingData == <<>>

\* the Refresh Session button (lines 362-374)
refreshSession(newSessionId) ==
    /\ Mounted /\ EventLoopIdle
    /\ nrefresh < MaxRefresh
    /\ newSessionId \in SessionIds
    /\ sessionId' = newSessionId
    /\ messages' = <<>>
    /\ streamingData' = RefreshedStreamingData
    /\ userQuery' = <<>>
    /\ isInputDisabled' = FALSE
    /\ isStreaming' = FALSE
    /\ nrefresh' = nrefresh + 1
    /\ last' = [Step("refresh", 0, NoReq, <<"refresh">>, <<>>) EXCEPT !.pre = Pre]
    /\ UNCHANGED <<isLoading, now, requests, budget>>

Next ==
    \/ \E t \in FormTexts : submitForm(t)
    \/ \E b \in {Gold, Blank} : handleButtonClick(b)
    \/ \E r \in 1..MaxOverlapReq, d \in Replies : SyncReply(r, d)
    \/ \E r \in 1..MaxOverlapReq : RequestFails(r)
    \/ \E r \in 1..MaxOverlapReq, b \in ServerBodies : StreamBegins(r, b)
    \/ \E r \in 1..MaxOverlapReq : StreamNoBody(r)
    \/ \E r \in 1..MaxOverlapReq : StreamRead(r)
    \/ \E r \in 1..MaxOverlapReq : StreamDone(r)
    \/ \E r \in 1..MaxOverlapReq : StreamFails(r)
    \/ \E r \in 1..MaxOverlapReq : AwaitRejects(r)
    \/ \E s \in SessionIds : refreshSession(s)

\* the whole client, all its steps within one millisecond of the clock
Spec == Init /\ [][Next]_vars

\* the whole client, with enough requests for two of them to overlap after
\* a first exchange
SpecOverlap == InitOverlap /\ [][Next]_vars

\* the promise a handler awaits at its fetch settles: the fetch or
\* response.json() resolves or rejects, and the continuation runs
Respond(r) ==
    \/ \E d \in Replies : SyncReply(r, d)
    \/ RequestFails(r)
    \/ \E b \in ServerBodies : StreamBegins(r, b)
    \/ StreamNoBody(r)

\* the promise of reader.read() settles, or handleStreamingResponse has
\* thrown, and the continuation runs
Consume(r) ==
    \/ AwaitRejects(r)
    \/ StreamFails(r)
    \/ StreamDone(r)
    \/ StreamRead(r)

\* the whole client when every awaited promise eventually settles
SpecLive ==
    /\ Init /\ [][Next]_vars
    /\ \A r \in 1..MaxReq : WF_vars(Respond(r)) /\ WF_vars(Consume(r))

\* a millisecond passes between two steps
Tick ==
    /\ now < MaxTicks
    /\ now' = now + 1
    /\ UNCHANGED <<messages, isLoading, isInputDisabled, sessionId, streamingData,
                   isStreaming, userQuery, requests, nrefresh, budget, last>>

NextClock ==
    \/ Next
    \/ Tick

\* the whole client with its clock: steps fall within the same millisecond
\* or in later ones
SpecClock == Init /\ [][NextClock]_vars

NextDispatch ==
    \/ Next
    \/ \E t \in FormTexts : handleSubmit(t)

\* the whole client when submit events also reach the form while its
\* controls are disabled (form.requestSubmit(), a dispatched submit event)
SpecDispatch == Init /\ [][NextDispatch]_vars

\* one request across refreshes: the state after handleSubmit(Hi), then the
\* server's response, with intermediate records if it is a stream, and the
\* Refresh Session button
InitStale ==
    /\ budget = 0
    /\ sessionId \in SessionIds
    /\ now = 0
    /\ nrefresh = 0
    /\ messages = <<UserMessage(Hi)>>
    /\ isLoading = TRUE
    /\ isInputDisabled = FALSE
    /\ isStreaming = FALSE
    /\ userQuery = <<>>
    /\ streamingData = <<>>
    /\ requests = <<NewRequest(Hi, "form")>>
    /\ last = Step("submit", 1, NoReq, <<>>, Hi)

NextStale ==
    \/ \E d \in Replies : SyncReply(1, d)
    \/ RequestFails(1)
    \/ \E b \in RecordBodies : StreamBegins(1, b)
    \/ StreamNoBody(1)
    \/ StreamRead(1)
    \/ StreamDone(1)
    \/ StreamFails(1)
    \/ AwaitRejects(1)
    \/ \E s \in SessionIds : refreshSession(s)

SpecStale == InitStale /\ [][NextStale]_vars

\* two streams at once: the state after handleSubmit(Hi), the reply
\* ReplyOptions, handleSubmit(Hi) again and a click on the option Gold, then
\* a stream in answer to each of the two pending requests
InitPair ==
    /\ budget = 0
    /\ sessionId = 0
    /\ now = 0
    /\ nrefresh = 0
    /\ messages = <<UserMessage(Hi), ReplyMessage(ReplyOptions),
                    UserMessage(Hi), UserMessage(Gold)>>
    /\ isLoading = TRUE
    /\ isInputDisabled = FALSE
    /\ isStreaming = FALSE
    /\ userQuery = <<>>
    /\ streamingData = <<>>
    /\ requests = <<NoReq,
                    [NewRequest(Hi, "form") EXCEPT !.overlap = TRUE],
                    [NewRequest(Gold, "button") EXCEPT !.overlap = TRUE]>>
    /\ last = Step("click", 3, NoReq, <<>>, Gold)

NextPair ==
    \/ StreamBegins(2, BodyIntentFollowUp)
    \/ StreamBegins(3, BodyProductsFollowUp)
    \/ \E r \in 2..3 : StreamRead(r)
    \/ \E r \in 2..3 : StreamDone(r)
    \/ \E r \in 2..3 : StreamFails(r)
    \/ \E r \in 2..3 : AwaitRejects(r)

SpecPair == InitPair /\ [][NextPair]_vars

----------------------------------------------------------------------------
(* The framer alone: one request whose streaming response has just begun,  *)
(* i.e. the state after handleSubmit(Hi) and StreamBegins(1, body), for     *)
(* every body of FramerBodies, and then the read loop.                      *)

InitFramer ==
    /\ budget = 0
    /\ sessionId = 0
    /\ now = 0
    /\ nrefresh = 0
    /\ messages = <<UserMessage(Hi)>>
    /\ isLoading = TRUE
    /\ isInputDisabled = FALSE
    /\ isStreaming = TRUE
    /\ userQuery = Hi
    /\ streamingData = <<[type |-> "query", data |-> Hi, timestamp |-> 0]>>
    /\ \E body \in FramerBodies :
         requests = <<[NewRequest(Hi, "form") EXCEPT
                          !.pc = "stream", !.body = body, !.payload = body]>>
    /\ last = Step("streamBegin", 1, NoReq, <<>>, <<>>)

NextFramer ==
    \/ StreamRead(1)
    \/ StreamDone(1)
    \/ StreamFails(1)
    \/ AwaitRejects(1)

SpecFramer == InitFramer /\ [][NextFramer]_vars

----------------------------------------------------------------------------
(* Vocabulary of the properties *)

\* the (type, data) entries of a stream-event log
TypeData(events) == [i \in 1..Len(events) |-> <<events[i].type, events[i].data>>]

\* what the read loop of request rq yields when `body` arrives as one chunk:
\* the log (after the query entry) and finalMessage
OneChunk(rq, body) ==
    ReadChunk([buffer |-> <<>>, pend |-> <<>>, finalMessage |-> <<>>],
              <<[type |-> "query", data |-> rq.text, timestamp |-> now]>>,
              body, now)

\* the log and the final text of the stream that has just ended are those of
\* `body` delivered as one chunk
SameAsOneChunk(body) ==
    LET one == OneChunk(last.req, body)
    IN  /\ TypeData(streamingData) = TypeData(one.events)
        /\ last.req.finalMessage = one.finalMessage

TextOf(bytes) == decode(<<>>, bytes).text
NewlineTerminated(body) == body # <<>> /\ body[Len(body)] = "\n"

\* every line of the body is JSON text and is followed by a newline
WellFormedBody(body) ==
    /\ NewlineTerminated(body)
    /\ \A i \in 1..Len(PoppedLines(body)) : JSONparse(TextOf(PoppedLines(body)[i])).ok

\* a line that is not blank and not JSON text
Malformed(line) == TrimNonEmpty(TextOf(line)) /\ ~JSONparse(TextOf(line)).ok

\* a line that decodes to a record with the given tag
IsRecord(line, tag) ==
    LET v == JSONparse(TextOf(line))
    IN  v.ok /\ v.kind = "object" /\ v.type = tag

RECURSIVE JoinWellFormed(_)
JoinWellFormed(lines) ==
    IF lines = <<>> THEN <<>>
    ELSE (IF Malformed(Head(lines)) THEN <<>> ELSE Head(lines) \o <<"\n">>)
         \o JoinWellFormed(Tail(lines))

\* the body without its malformed lines
WithoutMalformed(body) ==
    JoinWellFormed(PoppedLines(body))
      \o (IF Malformed(PoppedBuffer(body)) THEN <<>> ELSE PoppedBuffer(body))

\* the payloads of the follow_up records of a body, its last line included
FollowUpPayloads(body) ==
    {JSONparse(TextOf(split(body)[i])).data :
        i \in {j \in 1..Len(split(body)) : IsRecord(split(body)[j], "follow_up")}}

\* the lines completed by the read step from this state to the next
CompletedLines(r) ==
    LET rq    == requests[r]
        chunk == SubSeq(rq.body, 1, Len(rq.body) - Len(requests'[r].body))
    IN  PoppedLines(rq.buffer \o decode(rq.pend, chunk).text)

StreamEnded == last.op = "streamDone"

\* the completed lines of a body that decode to a JSON value
DecodedLines(body) ==
    SelectSeq(PoppedLines(body), LAMBDA l : JSONparse(TextOf(l)).ok)

\* the (tag, payload) pairs of the completed lines of a body that decode to
\* a record with a tag other than follow_up and final_response, in order
RECURSIVE IntermediateRecords(_)
IntermediateRecords(lines) ==
    IF lines = <<>> THEN <<>>
    ELSE LET v == JSONparse(TextOf(Head(lines)))
         IN  (IF /\ v.ok /\ v.kind = "object" /\ v.type # Undefined
                 /\ v.type \notin {"follow_up", "final_response"}
              THEN <<<<v.type, v.data>>>> ELSE <<>>)
             \o IntermediateRecords(Tail(lines))

\* the request was dispatched under a session id that a refresh has replaced
Stale(rq) == rq.session # sessionId

\* log is old with entries added at its end
Extends(log, old) ==
    Len(log) >= Len(old) /\ SubSeq(log, 1, Len(old)) = old

\* the JSON text of the value a line decodes to, as the raw value itself
RawValue(line) == SelectSeq(TextOf(line), LAMBDA c : c \notin WhiteSpace)

\* the entries a classifier yields for the decoded lines of a body when a
\* value without a tag is classified as `unknown` with the raw value as its
\* payload
RECURSIVE ClassifiedRecords(_)
ClassifiedRecords(lines) ==
    IF lines = <<>> THEN <<>>
    ELSE LET v == JSONparse(TextOf(Head(lines)))
         IN  (IF ~v.ok THEN <<>>
              ELSE IF v.kind = "object" /\ v.type # Undefined
              THEN IF v.type \in {"follow_up", "final_response"} THEN <<>>
                   ELSE <<<<v.type, v.data>>>>
              ELSE <<<<"unknown", RawValue(Head(lines))>>>>)
             \o ClassifiedRecords(Tail(lines))

\* log is an interleaving of a and b
RECURSIVE IsMerge(_, _, _)
IsMerge(log, a, b) ==
    IF log = <<>> THEN a = <<>> /\ b = <<>>
    ELSE \/ a # <<>> /\ Head(log) = Head(a) /\ IsMerge(Tail(log), Tail(a), b)
         \/ b # <<>> /\ Head(log) = Head(b) /\ IsMerge(Tail(log), a, Tail(b))

\* the entries a request with that text logs when its stream `body` is
\* consumed alone
Alone(text, body) ==
    TypeData(OneChunk([text |-> text], body).events)

\* the notifications surfaced for the request of a terminal step: those of
\* its earlier steps and those of the step itself
ToastsOf(step) == step.req.toasts \o step.toasts

\* the completed lines among the bytes of its body a stream has read
ReadLines(rq) ==
    PoppedLines(SubSeq(rq.payload, 1, Len(rq.payload) - Len(rq.body)))

\* the entries of a log that carry a tag
Tagged(entries) == SelectSeq(entries, LAMBDA e : e[1] # Undefined)

----------------------------------------------------------------------------
(* Properties *)

Cex_C2_LockRecomputed ==
    (last.op = "reply" \/ (StreamEnded /\ Truthy(last.req.finalMessage)))
        => (isInputDisabled = (messages[Len(messages)].type = "interactive"))

\* C3: right after refresh, loading and streaming are both false.
Cex_C3_RefreshIdle ==
    last.op = "refresh" => (~isLoading /\ ~isStreaming)

\* C4: right after refresh the message log and the stream-event log are
\* empty, streaming is false and inputLocked is false.
Thm_C4_RefreshClears ==
    last.op = "refresh"
        => /\ messages = <<>>
           /\ streamingData = <<>>
           /\ ~isStreaming
           /\ ~isInputDisabled

\* a refresh from a state with messages, stream events, streaming and the
\* input locked
Wit_C4_RefreshFromBusy ==
    /\ last.op = "refresh"
    /\ last.pre.nmsg > 0 /\ last.pre.nev > 0
    /\ last.pre.streaming /\ last.pre.locked

\* C5: every refresh yields a session id different from the one held just
\* before it (and drawn from the same range).
Cex_C5_RefreshNewId ==
    last.op = "refresh" => (sessionId \in SessionIds /\ sessionId # last.pre.session)

\* C6: a submit (form or button/option click) with non-blank text appends
\* exactly one user message carrying the text and issues one request; a
\* submit with empty or whitespace-only text appends nothing and issues no
\* request.
Cex_C6_SubmitAppends ==
    [][last'.op \in {"submit", "click"} =>
         IF TrimNonEmpty(last'.text)
         THEN /\ Len(messages') = Len(messages) + 1
              /\ SubSeq(messages', 1, Len(messages)) = messages
              /\ messages'[Len(messages')].sender = "user"
              /\ messages'[Len(messages')].content = last'.text
              /\ Len(requests') = Len(requests) + 1
              /\ requests'[Len(requests')].pc = "fetch"
              /\ requests'[Len(requests')].text = last'.text
         ELSE /\ messages' = messages
              /\ requests' = requests]_vars

\* C7: a stream that contains a follow_up record and ends normally appends
\* exactly one agent text message, carrying that follow_up's payload, when
\* it ends and not before, and logs no stream event for the follow_up.
Cex_C7_FollowUpMessage ==
    /\ (requests[1].pc = "stream") => Len(messages) = 1
    /\ (StreamEnded /\ FollowUpPayloads(last.req.payload) # {})
          => /\ Len(messages) = 2
             /\ messages[2].sender = "agent"
             /\ messages[2].type = "text"
             /\ messages[2].content \in FollowUpPayloads(last.req.payload)
             /\ \A i \in 1..Len(streamingData) : streamingData[i].type # "follow_up"

\* C8: when the stream ends with a non-empty pending buffer, the buffer is
\* handled as a final record: the log and the final text are those of the
\* same body with the newline appended.
Cex_C8_FlushAtEnd ==
    (StreamEnded /\ last.req.buffer # <<>>)
        => SameAsOneChunk(last.req.payload \o <<"\n">>)

Thm_C10_ClickUnlocks ==
    [][/\ last'.op = "click"
          => (~isInputDisabled' /\ requests'[last'.ticket].pc = "fetch")
       /\ (isInputDisabled' /\ ~isInputDisabled)
          => /\ last'.op = "reply"
             /\ messages'[Len(messages')].type = "interactive"]_vars

\* a click made while the input was locked: the lock is off and the request
\* is pending
Wit_C10_ClickWhileLocked ==
    /\ last.op = "click"
    /\ last.pre.locked
    /\ ~isInputDisabled
    /\ requests[last.ticket].pc = "fetch"

Cex_C14_IdsIncrease ==
    \A i, j \in 1..Len(messages) : i < j => messages[i].id < messages[j].id

\* C15: in every reachable state loading is true exactly when some request
\* has been dispatched and has not yet produced its terminal response, end
\* of stream or failure; loading does not become false while another
\* request is still in flight.
Cex_C15_LoadingIffInFlight ==
    EventLoopIdle => (isLoading = (InFlight # {}))

\* C16: from the step at which a stream begins (streaming set, query entry
\* appended) until that stream ends or fails, streaming is true and loading
\* is true in every state, whatever else happens in between (a refresh, the
\* completion of another request).
Cex_C16_FlagsHeldWhileStreaming ==
    /\ last.op = "streamBegin"
          => /\ streamingData # <<>>
             /\ streamingData[Len(streamingData)].type = "query"
    /\ \A r \in 1..nreq :
          requests[r].pc = "stream" => (isStreaming /\ isLoading)

\* C17: the text-form submit transition appends the user message, sets
\* loading to true and sets inputLocked to false, whatever the value of
\* inputLocked was before the submit.
Cex_C17_SubmitUnlocks ==
    [][(last'.op = "submit" /\ TrimNonEmpty(last'.text))
          => /\ messages' = Append(messages, UserMessage(last'.text))
             /\ isLoading'
             /\ ~isInputDisabled']_vars

\* C18: a response to a request dispatched before a refresh is still applied
\* when it arrives after the refresh: its agent message is appended to the
\* message log, its query entry and its stream records to the stream-event
\* log, and it sets inputLocked, loading and streaming as any other response
\* does.
Thm_C18_StaleResponseApplied ==
    [][(last'.ticket \in 1..nreq /\ Stale(requests[last'.ticket])) =>
         LET rq == requests[last'.ticket]
             m  == messages'[Len(messages')]
         IN  /\ last'.op = "reply"
                  => /\ Len(messages') = Len(messages) + 1
                     /\ Extends(messages', messages)
                     /\ m.sender = "agent"
                     /\ isInputDisabled' = (m.type = "interactive")
                     /\ ~isLoading'
             /\ last'.op = "streamBegin"
                  => /\ isStreaming'
                     /\ TypeData(streamingData')
                           = Append(TypeData(streamingData), <<"query", rq.text>>)
             /\ last'.op = "read"
                  => /\ Extends(streamingData', streamingData)
                     /\ Tagged(TypeData(SubSeq(streamingData',
                                                Len(streamingData) + 1,
                                                Len(streamingData'))))
                           = IntermediateRecords(CompletedLines(last'.ticket))
             /\ last'.op = "streamDone"
                  => /\ messages' = IF Truthy(rq.finalMessage)
                                    THEN Append(messages, StreamMessage(rq.finalMessage))
                                    ELSE messages
                     /\ ~isLoading'
                     /\ ~isStreaming']_vars

\* a stream begun before a refresh has ended after it: its intent record is
\* the only entry of the stream-event log and its final text the only
\* message
Wit_C18_StreamAcrossRefresh ==
    /\ StreamEnded
    /\ Stale(last.req)
    /\ last.req.payload = BodyIntentFollowUp
    /\ TypeData(streamingData) = <<<<"intent", <<"x">>>>>>
    /\ Len(messages) = 1
    /\ messages[1].sender = "agent"
    /\ messages[1].content = <<"y">>
    /\ ~isLoading /\ ~isStreaming

\* C19: two requests can be in flight at the same time, and when both have
\* completed, inputLocked is the value determined by the response that
\* completed last (true iff the agent message it appended is interactive),
\* whatever the order in which the requests were dispatched.
Cex_C19_LastResponseWins ==
    (/\ InFlight = {}
     /\ last.req.overlap
     /\ last.op = "reply" \/ (StreamEnded /\ Truthy(last.req.finalMessage)))
        => (isInputDisabled = (messages[Len(messages)].type = "interactive"))

Cex_C21_UntaggedIsUnknown ==
    requests[1].pc = "stream"
        => TypeData(streamingData)
             = <<<<"query", requests[1].text>>>>
                 \o ClassifiedRecords(ReadLines(requests[1]))

\* C22: a final_response record is suppressed like follow_up (no entry in
\* the stream-event log) and its payload is not captured as the final text:
\* a stream with a final_response record and no follow_up record ends
\* without appending any agent message.
Thm_C22_FinalResponseDropped ==
    StreamEnded
        => /\ \A i \in 1..Len(streamingData) :
                 streamingData[i].type # "final_response"
           /\ (/\ \E i \in 1..Len(PoppedLines(last.req.payload)) :
                     IsRecord(PoppedLines(last.req.payload)[i], "final_response")
               /\ FollowUpPayloads(last.req.payload) = {})
                 => /\ ~Truthy(last.req.finalMessage)
                    /\ Len(messages) = 1
                    /\ messages[1].sender = "user"

\* a stream made of an intent record and a final_response record has ended:
\* the intent is logged, the final_response is not, and the message log holds
\* the user message only
Wit_C22_OnlyFinalResponse ==
    /\ StreamEnded
    /\ Len(PoppedLines(last.req.payload)) = 2
    /\ IsRecord(PoppedLines(last.req.payload)[1], "intent")
    /\ IsRecord(PoppedLines(last.req.payload)[2], "final_response")
    /\ TypeData(streamingData) = <<<<"query", Hi>>, <<"intent", <<"x">>>>>>
    /\ Len(messages) = 1

\* C23: between two refreshes the message log is append-only: every step
\* other than a refresh leaves the existing entries unchanged and in the
\* same order, and only adds entries at the end.
Thm_C23_LogAppendOnly ==
    [][last'.op # "refresh" => Extends(messages', messages)]_vars

\* the end of a stream has added its agent message after two exchanges
\* already in the log
Wit_C23_FourthMessage ==
    /\ StreamEnded
    /\ nrefresh = 0
    /\ Len(messages) = 4
    /\ messages[1].sender = "user"
    /\ messages[2].sender = "agent"
    /\ messages[3].sender = "user"
    /\ messages[4] = StreamMessage(<<"y">>)

\* C24: when two streams are consumed concurrently, each has its own pending
\* buffer and its own final text: the final text of a stream that ends is
\* the one of its body consumed alone and is the content of the agent
\* message it appends, and once both have ended the stream-event log is an
\* interleaving of the entries each stream logs when consumed alone.
Thm_C24_StreamsIndependent ==
    /\ StreamEnded
          => /\ last.req.finalMessage
                  = OneChunk(last.req, last.req.payload).finalMessage
             /\ Truthy(last.req.finalMessage)
                  => messages[Len(messages)] = StreamMessage(last.req.finalMessage)
    /\ (StreamEnded /\ InFlight = {} /\ Len(messages) = 6)
          => /\ IsMerge(TypeData(streamingData),
                        Alone(Hi, BodyIntentFollowUp),
                        Alone(Gold, BodyProductsFollowUp))
             /\ {messages[5].content, messages[6].content} = {<<"y">>, <<"@">>}

\* both streams have ended after reads that alternated between them and
\* ended inside records: the log interleaves their entries and each has
\* appended its own final text
Wit_C24_InterleavedReads ==
    /\ StreamEnded /\ InFlight = {}
    /\ last.req.split
    /\ Len(messages) = 6
    /\ messages[5].content = <<"@">>
    /\ messages[6].content = <<"y">>
    /\ TypeData(streamingData)
          = <<<<"query", Hi>>, <<"query", Gold>>,
              <<"recommended_products", <<"x">>>>, <<"intent", <<"x">>>>>>

\* C25: when a stream read fails after a follow_up record was captured, no
\* agent message is appended for that request (the pending final text is
\* lost), and the stream-event entries appended before the failure stay in
\* the stream-event log.
Thm_C25_FailureDropsFinalText ==
    [][(last'.op \in {"streamFail", "caught"} /\ Truthy(last'.req.finalMessage))
          => /\ messages' = messages
             /\ streamingData' = streamingData
             /\ requests'[last'.ticket].pc
                   = IF last'.op = "caught" THEN "done" ELSE "catch"]_vars

\* a read has failed after the intent and the follow_up records were read:
\* the intent entry is in the log and the message log holds the user
\* message only
Wit_C25_FailedAfterFollowUp ==
    /\ last.op = "caught"
    /\ requests[1].pc = "done"
    /\ last.req.finalMessage = <<"y">>
    /\ nrefresh = 0
    /\ TypeData(streamingData) = <<<<"query", Hi>>, <<"intent", <<"x">>>>>>
    /\ messages = <<UserMessage(Hi)>>

Cex_C27_OneNotification ==
    last.op \in {"fail", "caught"} => Len(ToastsOf(last)) = 1

====
